---- MODULE Spec2Model ----
(***************************************************************************)
(* Model of src/src/bot.py: a Slack bot that collects social-media URLs    *)
(* from mentions and from the /add-influencer command and appends them to  *)
(* a Google Sheet (the queue).                                             *)
(*                                                                         *)
(* A Python string is a sequence of tokens (a token stands for a run of    *)
(* characters that the code never splits: a scheme, a host label, a path   *)
(* segment, a blank, a bracket). Concatenation is \o, equality is          *)
(* equality of sequences. A sheet cell is such a string; a row is a        *)
(* sequence of cells; the sheet is the sequence of its non-empty rows.     *)
(***************************************************************************)
EXTENDS Naturals, Integers, Sequences, FiniteSets, TLC

(***************************************************************************)
(* Bounds of the model.                                                    *)
(***************************************************************************)
\* invocations the transport delivers in one behaviour
MaxInvocations == 2
\* remote calls that raise in one behaviour
MaxFaults == 1

\* handler invocations in flight at one time (a slot is free again once its
\* handler has returned)
Handlers == {1, 2}
\* processes started against the same sheet
Procs == {1, 2}

(***************************************************************************)
(* Strings.                                                                *)
(***************************************************************************)
Str(t) == <<t>>
EmptyStr == <<>>
\* Python's None object (no string of the model holds this token)
None == <<"None">>

HTTP == "http://"
HTTPS == "https://"
SchemePrefixes == {HTTP, HTTPS}
\* characters matched by \s
SpaceTokens == {" "}
\* characters excluded by the class [^\s<>]
UrlStopTokens == SpaceTokens \cup {"<", ">"}

RECURSIVE LStrip(_, _)
LStrip(s, chars) ==
    IF s # <<>> /\ Head(s) \in chars THEN LStrip(Tail(s), chars) ELSE s

RECURSIVE RStrip(_, _)
RStrip(s, chars) ==
    IF s # <<>> /\ s[Len(s)] \in chars
    THEN RStrip(SubSeq(s, 1, Len(s) - 1), chars) ELSE s

\* str.strip(chars) / str.strip()
Strip(s, chars) == RStrip(LStrip(s, chars), chars)

\* str.startswith(('http://', 'https://'))
StartsWithScheme(s) == s # <<>> /\ Head(s) \in SchemePrefixes

\* str.lower(): the one mixed-case token of the model
LowerTok(t) == IF t = "TikTok.com" THEN "tiktok.com" ELSE t
Lower(s) == [i \in 1..Len(s) |-> LowerTok(s[i])]

\* needle in haystack, for a needle of one token
Contains(s, t) == \E i \in 1..Len(s) : s[i] = t

(***************************************************************************)
(* re.findall(r'https?://[^\s<>]+', text): leftmost, non-overlapping,      *)
(* greedy matches.                                                         *)
(***************************************************************************)
RECURSIVE RunEnd(_, _)
\* last index of the maximal run of non-stop tokens starting at i (i-1 if none)
RunEnd(text, i) ==
    IF i <= Len(text) /\ text[i] \notin UrlStopTokens
    THEN RunEnd(text, i + 1) ELSE i - 1

RECURSIVE FindAllFrom_SchemeOptional(_, _)
\* variant: the pattern with an optional scheme, (https?://)?[^\s<>]+
FindAllFrom_SchemeOptional(text, i) ==
    IF i > Len(text) THEN <<>>
    ELSE IF RunEnd(text, i) >= i
         THEN <<SubSeq(text, i, RunEnd(text, i))>>
                 \o FindAllFrom_SchemeOptional(text, RunEnd(text, i) + 1)
         ELSE FindAllFrom_SchemeOptional(text, i + 1)

RECURSIVE FindAllFrom(_, _)
FindAllFrom(text, i) ==
    IF i > Len(text) THEN <<>>
    ELSE IF text[i] \in SchemePrefixes /\ RunEnd(text, i + 1) >= i + 1
         THEN <<SubSeq(text, i, RunEnd(text, i + 1))>>
                 \o FindAllFrom(text, RunEnd(text, i + 1) + 1)
         ELSE FindAllFrom(text, i + 1)

FindAll(text) == FindAllFrom(text, 1)

(***************************************************************************)
(* urllib.parse.urlparse on a string that starts with a scheme.            *)
(***************************************************************************)
NetlocStopTokens == {"/", "?", "#"}
PathStopTokens == {"?", "#"}

RECURSIVE PrefixUntil(_, _)
\* longest prefix of s holding no token of stops
PrefixUntil(s, stops) ==
    IF s = <<>> \/ Head(s) \in stops THEN <<>>
    ELSE <<Head(s)>> \o PrefixUntil(Tail(s), stops)

UrlParse(url) ==
    LET rest == Tail(url)
        netloc == PrefixUntil(rest, NetlocStopTokens)
        after == SubSeq(rest, Len(netloc) + 1, Len(rest))
        path == PrefixUntil(after, PathStopTokens)
    IN  [raises |-> Contains(netloc, "[") # Contains(netloc, "]"),
         netloc |-> netloc,
         path |-> path]

(***************************************************************************)
(* SUPPORTED_PLATFORMS, in the dict's insertion order.                     *)
(***************************************************************************)
SUPPORTED_PLATFORMS ==
    << <<"instagram.com", "Instagram">>,
       <<"tiktok.com", "TikTok">>,
       <<"youtube.com", "YouTube">>,
       <<"youtu.be", "YouTube">> >>

RECURSIVE FirstPlatform(_, _)
\* the loop of validate_url: first entry whose domain is in the host, or None
FirstPlatform(domain, k) ==
    IF k > Len(SUPPORTED_PLATFORMS) THEN None
    ELSE IF Contains(domain, SUPPORTED_PLATFORMS[k][1])
         THEN Str(SUPPORTED_PLATFORMS[k][2])
         ELSE FirstPlatform(domain, k + 1)

UnsupportedPlatform == <<"UnsupportedPlatform">>
InvalidPath(platform) == <<"InvalidPath">> \o platform
InvalidFormat == <<"InvalidFormat">>
AlreadyExists == <<"AlreadyExists">>
FailedToAdd == <<"FailedToAdd">>

Rejected(msg) == [url |-> None, result |-> msg]
Accepted(u, platform) == [url |-> u, result |-> platform]

\* variant: the host is compared as written, without lower()
validate_url_NoLower(input) ==
    LET url == IF StartsWithScheme(input) THEN input ELSE <<HTTPS>> \o input
        parsed == UrlParse(url)
        platform == FirstPlatform(parsed.netloc, 1)
    IN  IF parsed.raises THEN Rejected(InvalidFormat)
        ELSE IF platform = None THEN Rejected(UnsupportedPlatform)
        ELSE IF parsed.path = <<>> \/ parsed.path = <<"/">>
             THEN Rejected(InvalidPath(platform))
        ELSE Accepted(url, platform)

\* validate_url(url) -> (validated_url, result)
validate_url(input) ==
    LET url == IF StartsWithScheme(input) THEN input ELSE <<HTTPS>> \o input
        parsed == UrlParse(url)
        domain == Lower(parsed.netloc)
        platform == FirstPlatform(domain, 1)
    IN  IF parsed.raises THEN Rejected(InvalidFormat)
        ELSE IF platform = None THEN Rejected(UnsupportedPlatform)
        ELSE IF parsed.path = <<>> \/ parsed.path = <<"/">>
             THEN Rejected(InvalidPath(platform))
        ELSE Accepted(url, platform)

(***************************************************************************)
(* The spreadsheet backend as the code calls it.                           *)
(***************************************************************************)
headers == <<Str("Timestamp"), Str("URL"), Str("Platform"), Str("Requester"),
             Str("Status")>>
\* a first row somebody else wrote before this program ever ran
ForeignHeader == <<Str("Links")>>
InitialSheets == {<<>>, <<ForeignHeader>>}

\* values().get(range="<sheet>!A:E").execute().get('values', [])
ValuesGetAll(s) == s
\* values().get(range="<sheet>!A1:E1").execute().get('values', [])
ValuesGetRow1(s) == IF s = <<>> THEN <<>> ELSE <<s[1]>>
\* a null cell of an appended row is skipped by the backend: the cell stays empty
StoreCell(v) == IF v = None THEN EmptyStr ELSE v
\* variant: a backend that refuses a row whose column B is already stored
ValuesAppend_Dedup(s, row_data) ==
    IF \E i \in 1..Len(s) : Len(s[i]) > 1 /\ s[i][2] = row_data[2]
    THEN s
    ELSE Append(s, [c \in 1..Len(row_data) |-> StoreCell(row_data[c])])
\* values().append(range="<sheet>!A:E", body={'values': [row_data]})
ValuesAppend(s, row_data) ==
    Append(s, [c \in 1..Len(row_data) |-> StoreCell(row_data[c])])
\* variant: the header is written with append instead of update on A1:E1
ValuesUpdateRow1_Append(s, row) == Append(s, row)
\* values().update(range="<sheet>!A1:E1", body={'values': [headers]})
ValuesUpdateRow1(s, row) ==
    IF s = <<>> THEN <<row>> ELSE [s EXCEPT ![1] = row]

\* check_duplicate_url, the scan of the rows that were read
DuplicateInValues(values, url) ==
    LET rows == IF Len(values) > 1 THEN Tail(values) ELSE <<>>
    IN  \E i \in 1..Len(rows) : Len(rows[i]) > 1 /\ rows[i][2] = url

\* variant: a read that raises counts as a duplicate (fail closed)
check_duplicate_url_FailClosed(s, url, readOk) ==
    IF readOk THEN DuplicateInValues(ValuesGetAll(s), url) ELSE TRUE

\* check_duplicate_url(url): readOk = FALSE is an exception of the read
check_duplicate_url(s, url, readOk) ==
    IF readOk THEN DuplicateInValues(ValuesGetAll(s), url) ELSE FALSE

(***************************************************************************)
(* The identity lookup and get_user_name.                                  *)
(***************************************************************************)
UnknownUser == Str("Unknown User")
UsersInfo(raises, ok, real, display, name) ==
    [raises |-> raises, ok |-> ok, real_name |-> real,
     display_name |-> display, name |-> name]
LookupRaises == UsersInfo(TRUE, FALSE, None, None, None)
LookupNamed == UsersInfo(FALSE, TRUE, Str("Jane Doe"), Str("jd"), Str("jane"))
LookupBare == UsersInfo(FALSE, TRUE, None, EmptyStr, None)
LookupNotOk == UsersInfo(FALSE, FALSE, None, None, None)
LookupDisplay == UsersInfo(FALSE, TRUE, EmptyStr, Str("jd"), Str("jane"))
LookupName == UsersInfo(FALSE, TRUE, None, EmptyStr, Str("jane"))
LookupBlank == UsersInfo(FALSE, TRUE, EmptyStr, EmptyStr, EmptyStr)
\* the answers of users_info the handlers are run against
UserInfoResults == {LookupRaises, LookupNamed}

\* every kind of answer: an exception, ok = false, and ok = true with the
\* first usable field at each position of the chain or at none
LookupOutcomes ==
    {LookupRaises, LookupNotOk, LookupNamed, LookupDisplay, LookupName,
     LookupBare, LookupBlank}

Truthy(v) == v # None /\ v # EmptyStr
\* Python's `a or b`
Or(a, b) == IF Truthy(a) THEN a ELSE b

get_user_name(result) ==
    IF result.raises THEN UnknownUser
    ELSE IF result.ok
         THEN Or(result.real_name, Or(result.display_name, result.name))
         ELSE UnknownUser

Now == Str("2026-01-01 00:00:00")
Pending == Str("Pending")
\* variant: url and platform in each other's column
RowData_Swapped(url, platform, user_name) == <<Now, platform, url, user_name, Pending>>
\* add_to_sheet: row_data
RowData(url, platform, user_name) == <<Now, url, platform, user_name, Pending>>

(***************************************************************************)
(* Replies.                                                                *)
(***************************************************************************)
Msg(type, ok, err, note) == [type |-> type, ok |-> ok, err |-> err, note |-> note]
NoMsg == Msg("none", <<>>, <<>>, FALSE)
UsageHint == Msg("usage", <<>>, <<>>, FALSE)
Apology == Msg("apology", <<>>, <<>>, FALSE)
\* a line of processed_urls / of errors (i: history, the position in the
\* message of the url the line is about)
SuccessLine(i, platform, url) == [i |-> i, platform |-> platform, url |-> url]
ErrorLine(i, url, reason) == [i |-> i, url |-> url, reason |-> reason]
\* variant: the batch-delay note is added whether or not a url was added
MentionResponse_NoteAlways(processed_urls, errors) ==
    Msg("results", processed_urls, errors, TRUE)
\* handle_mention: the response built from processed_urls and errors
MentionResponse(processed_urls, errors) ==
    Msg("results",
        IF processed_urls # <<>> THEN processed_urls ELSE <<>>,
        IF errors # <<>> THEN errors ELSE <<>>,
        processed_urls # <<>>)

(***************************************************************************)
(* Inputs.                                                                 *)
(***************************************************************************)
Jane == <<HTTPS, "tiktok.com", "/", "@jane">>
MentionTexts ==
    { None,
      <<"@bot", " ", "hello">>,
      <<"@bot", " ", "tiktok.com", "/", "@jane">>,
      <<"@bot", " ", "<">> \o Jane \o <<">">>,
      Jane \o <<" ">> \o Jane,
      <<HTTP, "example.com", "/", "x", " ", HTTPS, "youtu.be">> }
CommandTexts ==
    { None,
      <<" ">>,
      <<" ", "tiktok.com", "/", "@jane", " ">>,
      <<HTTPS, "[", "instagram.com", "/", "x">> }

(***************************************************************************)
(* State.                                                                  *)
(***************************************************************************)
VARIABLES
    sheet,      \* the queue: the rows of the spreadsheet
    ppc,        \* per process: "setup", "write" (header read found nothing), "serving"
    hs,         \* per handler invocation: its locals (see Idle)
    started,    \* invocations delivered so far
    faults      \* remote calls that raised so far

vars == <<sheet, ppc, hs, started, faults>>

Idle ==
    [pc |-> "idle", kind |-> "none", text |-> <<>>, urls |-> <<>>, idx |-> 0,
     validated_url |-> None, platform |-> None, user_name |-> None,
     processed_urls |-> <<>>, errors |-> <<>>, response |-> NoMsg,
     \* history: the calls this invocation issued, the replies that went
     \* through, the rows it appended (i: for which url of the message,
     \* pos: where in the queue, url: column B)
     calls |-> <<>>, sent |-> <<>>, rows |-> <<>>]

Call(op, i, ok) == [op |-> op, i |-> i, ok |-> ok]
InFlight(h) == hs[h].pc \notin {"idle", "done", "raised"}
Serving == \E p \in Procs : ppc[p] = "serving"

Init ==
    /\ sheet \in InitialSheets
    /\ ppc = [p \in Procs |-> "setup"]
    /\ hs = [h \in Handlers |-> Idle]
    /\ started = 0
    /\ faults = 0

\* a remote call returns (ok) or raises (a fault)
Outcome(ok) ==
    /\ ok \/ faults < MaxFaults
    /\ faults' = IF ok THEN faults ELSE faults + 1

(***************************************************************************)
(* Startup: setup_sheet_headers of each process, then the process serves.  *)
(* The read and the write are two remote calls; an exception of either is  *)
(* caught and logged, and startup goes on.                                 *)
(***************************************************************************)
HeaderRead(p, ok) ==
    /\ ppc[p] = "setup"
    \* processes are numbered in the order of their header reads
    /\ \A q \in Procs : q < p => ppc[q] # "setup"
    /\ Outcome(ok)
    /\ ppc' = [ppc EXCEPT ![p] =
                  IF ok /\ ValuesGetRow1(sheet) = <<>> THEN "write" ELSE "serving"]
    /\ UNCHANGED <<sheet, hs, started>>

HeaderWrite(p, ok) ==
    /\ ppc[p] = "write"
    /\ Outcome(ok)
    /\ sheet' = IF ok THEN ValuesUpdateRow1(sheet, headers) ELSE sheet
    /\ ppc' = [ppc EXCEPT ![p] = "serving"]
    /\ UNCHANGED <<hs, started>>

(***************************************************************************)
(* The two handlers. A step of a handler is one remote call (ack, queue    *)
(* read, append, say/respond) together with the local code that follows    *)
(* it up to the next remote call. The identity lookup of add_to_sheet      *)
(* touches no shared state and is taken in the step of the append that     *)
(* follows it.                                                             *)
(***************************************************************************)
Set(h, st) == hs' = [hs EXCEPT ![h] = st]
Logged(st, op, ok) == [st EXCEPT !.calls = Append(@, Call(op, st.idx, ok))]

\* the transport delivers an event to a serving process
CanStart(h) ==
    /\ hs[h].pc = "idle"
    /\ \A g \in Handlers : g < h => hs[g].pc # "idle"
    /\ started < MaxInvocations
    /\ Serving

Started(h) ==
    /\ started' = started + 1
    /\ UNCHANGED <<sheet, ppc>>

\* the url the loop (or the command) is working on
CurrentUrl(st) ==
    IF st.kind = "mention" THEN Strip(st.urls[st.idx], {"<", ">"})
    ELSE st.urls[st.idx]

\* variant: an error ends the loop of the mention (break instead of continue)
Refused_Break(st, type, reason) ==
    LET line == ErrorLine(st.idx, CurrentUrl(st), reason)
    IN  IF st.kind = "mention"
        THEN [st EXCEPT !.errors = Append(@, line),
                        !.pc = "reply",
                        !.response = MentionResponse(st.processed_urls, Append(st.errors, line))]
        ELSE [st EXCEPT !.pc = "reply",
                        !.response = Msg(type, <<>>, <<line>>, FALSE)]

\* variant: the error line is recorded but the url goes on to the append
\* (the continue / return after the error is missing)
Refused_GoesOn(st, type, reason) ==
    [st EXCEPT !.errors = Append(@, ErrorLine(st.idx, CurrentUrl(st), reason)),
               !.response = Msg(type, <<>>,
                                <<ErrorLine(st.idx, CurrentUrl(st), reason)>>, FALSE),
               !.pc = "append"]

RECURSIVE ValidateFrom(_)
\* the end of the loop body: the next url of the mention, or its response
NextUrl(st) ==
    IF st.idx < Len(st.urls)
    THEN ValidateFrom([st EXCEPT !.idx = @ + 1])
    ELSE [st EXCEPT !.pc = "reply",
                    !.response = MentionResponse(st.processed_urls, st.errors)]

\* the current url is turned down: errors.append(...) and continue in a
\* mention, the response of that type in a command
Refused(st, type, reason) ==
    LET line == ErrorLine(st.idx, CurrentUrl(st), reason)
    IN  IF st.kind = "mention"
        THEN NextUrl([st EXCEPT !.errors = Append(@, line)])
        ELSE [st EXCEPT !.pc = "reply",
                        !.response = Msg(type, <<>>, <<line>>, FALSE)]

\* the current url was appended: processed_urls.append(...) in a mention,
\* the success response in a command
Added(st, row) ==
    LET line == SuccessLine(st.idx, st.platform, st.validated_url)
        st1 == [st EXCEPT !.rows = Append(@, [i |-> st.idx, pos |-> row, url |-> st.validated_url])]
    IN  IF st.kind = "mention"
        THEN NextUrl([st1 EXCEPT !.processed_urls = Append(@, line)])
        ELSE [st1 EXCEPT !.pc = "reply",
                         !.response = Msg("added", <<line>>, <<>>, TRUE)]

\* validate_url on the current url and the branch on its result
ValidateFrom(st) ==
    LET st1 == Logged(st, "validate", TRUE)
        r == validate_url(CurrentUrl(st))
    IN  IF r.url = None
        THEN Refused(st1, "rejected", r.result)
        ELSE [st1 EXCEPT !.validated_url = r.url, !.platform = r.result,
                         !.pc = "check"]

\* handle_mention up to its first remote call
MentionStart(h, txt) ==
    /\ CanStart(h)
    /\ LET st == [hs[h] EXCEPT !.kind = "mention", !.text = txt]
       IN  IF txt = None
           THEN Set(h, [st EXCEPT !.pc = "apology"])
           ELSE IF FindAll(txt) = <<>>
           THEN Set(h, [st EXCEPT !.pc = "reply", !.response = UsageHint])
           ELSE Set(h, ValidateFrom([st EXCEPT !.urls = FindAll(txt), !.idx = 1]))
    /\ Started(h)
    /\ UNCHANGED faults

\* variant: the test of the empty argument is missing
CommandStart_NoEmptyCheck(h, txt, ok) ==
    /\ CanStart(h)
    /\ Outcome(ok)
    /\ LET st == Logged([hs[h] EXCEPT !.kind = "command", !.text = txt], "ack", ok)
           url == Strip(txt, SpaceTokens)
       IN  IF ~ok \/ txt = None
           THEN Set(h, [st EXCEPT !.pc = "apology"])
           ELSE Set(h, ValidateFrom([st EXCEPT !.urls = <<url>>, !.idx = 1]))
    /\ Started(h)

\* variant: the empty argument is answered without an acknowledgement
CommandStart_AckLate(h, txt, ok) ==
    /\ CanStart(h)
    /\ Outcome(ok)
    /\ LET st0 == [hs[h] EXCEPT !.kind = "command", !.text = txt]
           st == Logged(st0, "ack", ok)
           url == Strip(txt, SpaceTokens)
       IN  IF txt # None /\ url = <<>>
           THEN Set(h, [st0 EXCEPT !.pc = "reply", !.response = UsageHint])
           ELSE IF ~ok \/ txt = None
           THEN Set(h, [st EXCEPT !.pc = "apology"])
           ELSE Set(h, ValidateFrom([st EXCEPT !.urls = <<url>>, !.idx = 1]))
    /\ Started(h)

\* handle_slash_command: ack(), then the argument, up to the next remote call
CommandStart(h, txt, ok) ==
    /\ CanStart(h)
    /\ Outcome(ok)
    /\ LET st == Logged([hs[h] EXCEPT !.kind = "command", !.text = txt], "ack", ok)
           url == Strip(txt, SpaceTokens)
       IN  IF ~ok \/ txt = None
           THEN Set(h, [st EXCEPT !.pc = "apology"])
           ELSE IF url = <<>>
           THEN Set(h, [st EXCEPT !.pc = "reply", !.response = UsageHint])
           ELSE Set(h, ValidateFrom([st EXCEPT !.urls = <<url>>, !.idx = 1]))
    /\ Started(h)

\* check_duplicate_url(validated_url) and the branch on its result
CheckDuplicate(h, ok) ==
    /\ hs[h].pc = "check"
    /\ Outcome(ok)
    /\ LET st == Logged(hs[h], "read", ok)
       IN  IF check_duplicate_url(sheet, st.validated_url, ok)
           THEN Set(h, Refused(st, "duplicate", AlreadyExists))
           ELSE Set(h, [st EXCEPT !.pc = "append"])
    /\ UNCHANGED <<sheet, ppc, started>>

\* variant: add_to_sheet without its except block, an exception of the
\* append reaches the except block of the handler
AddToSheet_Uncaught(h, result, ok) ==
    /\ hs[h].pc = "append"
    /\ ok \/ ~result.raises
    /\ Outcome(ok /\ ~result.raises)
    /\ LET st == Logged(
                    [Logged(hs[h], "lookup", ~result.raises) EXCEPT
                        !.user_name = get_user_name(result)],
                    "append", ok)
           row_data == RowData(st.validated_url, st.platform, st.user_name)
       IN  IF ok
           THEN /\ sheet' = ValuesAppend(sheet, row_data)
                /\ Set(h, Added(st, Len(sheet) + 1))
           ELSE /\ sheet' = sheet
                /\ Set(h, [st EXCEPT !.pc = "apology"])
    /\ UNCHANGED <<ppc, started>>

\* variant: an append that raised is tried again
AddToSheet_Retry(h, result, ok) ==
    /\ hs[h].pc = "append"
    /\ ok \/ ~result.raises
    /\ Outcome(ok /\ ~result.raises)
    /\ LET st == Logged(
                    [Logged(hs[h], "lookup", ~result.raises) EXCEPT
                        !.user_name = get_user_name(result)],
                    "append", ok)
           row_data == RowData(st.validated_url, st.platform, st.user_name)
       IN  IF ok
           THEN /\ sheet' = ValuesAppend(sheet, row_data)
                /\ Set(h, Added(st, Len(sheet) + 1))
           ELSE /\ sheet' = sheet
                /\ Set(h, st)
    /\ UNCHANGED <<ppc, started>>

\* add_to_sheet(validated_url, platform, user) and the branch on its result:
\* result is what users_info answers, ok = FALSE an exception of the append
AddToSheet(h, result, ok) ==
    /\ hs[h].pc = "append"
    /\ ok \/ ~result.raises
    /\ Outcome(ok /\ ~result.raises)
    /\ LET st == Logged(
                    [Logged(hs[h], "lookup", ~result.raises) EXCEPT
                        !.user_name = get_user_name(result)],
                    "append", ok)
           row_data == RowData(st.validated_url, st.platform, st.user_name)
       IN  IF ok
           THEN /\ sheet' = ValuesAppend(sheet, row_data)
                /\ Set(h, Added(st, Len(sheet) + 1))
           ELSE /\ sheet' = sheet
                /\ Set(h, Refused(st, "failed", FailedToAdd))
    /\ UNCHANGED <<ppc, started>>

\* say(response) / respond(...) inside the try block
Reply(h, ok) ==
    /\ hs[h].pc = "reply"
    /\ Outcome(ok)
    /\ LET st == Logged(hs[h], "say", ok)
       IN  IF ok
           THEN Set(h, [st EXCEPT !.sent = Append(@, st.response), !.pc = "done"])
           ELSE Set(h, [st EXCEPT !.pc = "apology"])
    /\ UNCHANGED <<sheet, ppc, started>>

\* variant: an except block that logs and returns without a reply
SayApology_LogOnly(h, ok) ==
    /\ hs[h].pc = "apology"
    /\ ok
    /\ Set(h, [hs[h] EXCEPT !.pc = "done"])
    /\ UNCHANGED <<sheet, ppc, started, faults>>

\* the except block: say / respond with the apology; an exception of this
\* call leaves the handler
SayApology(h, ok) ==
    /\ hs[h].pc = "apology"
    /\ Outcome(ok)
    /\ LET st == Logged(hs[h], "say", ok)
       IN  IF ok
           THEN Set(h, [st EXCEPT !.sent = Append(@, Apology), !.pc = "done"])
           ELSE Set(h, [st EXCEPT !.pc = "raised"])
    /\ UNCHANGED <<sheet, ppc, started>>

\* the handler has returned (or raised): its locals are gone
Return(h) ==
    /\ hs[h].pc \in {"done", "raised"}
    /\ Set(h, Idle)
    /\ UNCHANGED <<sheet, ppc, started, faults>>

Next ==
    \/ \E p \in Procs, ok \in BOOLEAN : HeaderRead(p, ok)
    \/ \E p \in Procs, ok \in BOOLEAN : HeaderWrite(p, ok)
    \/ \E h \in Handlers, txt \in MentionTexts : MentionStart(h, txt)
    \/ \E h \in Handlers, txt \in CommandTexts, ok \in BOOLEAN :
          CommandStart(h, txt, ok)
    \/ \E h \in Handlers, ok \in BOOLEAN : CheckDuplicate(h, ok)
    \/ \E h \in Handlers, result \in UserInfoResults, ok \in BOOLEAN :
          AddToSheet(h, result, ok)
    \/ \E h \in Handlers, ok \in BOOLEAN : Reply(h, ok)
    \/ \E h \in Handlers, ok \in BOOLEAN : SayApology(h, ok)
    \/ \E h \in Handlers : Return(h)

Spec == Init /\ [][Next]_vars

(***************************************************************************)
(* The executions in which handler invocations do not overlap and every    *)
(* queue read and append of a handler succeeds. Startup is as in Spec: the *)
(* header read or write of a process may raise. The identity lookup        *)
(* answers in every way it can (LookupOutcomes).                           *)
(***************************************************************************)
NoneInFlight == \A g \in Handlers : ~InFlight(g)

NextSeq ==
    \/ \E p \in Procs, ok \in BOOLEAN : HeaderRead(p, ok)
    \/ \E p \in Procs, ok \in BOOLEAN : HeaderWrite(p, ok)
    \/ \E h \in Handlers, txt \in MentionTexts : NoneInFlight /\ MentionStart(h, txt)
    \/ \E h \in Handlers, txt \in CommandTexts, ok \in BOOLEAN :
          NoneInFlight /\ CommandStart(h, txt, ok)
    \/ \E h \in Handlers : CheckDuplicate(h, TRUE)
    \/ \E h \in Handlers, result \in LookupOutcomes : AddToSheet(h, result, TRUE)
    \/ \E h \in Handlers, ok \in BOOLEAN : Reply(h, ok)
    \/ \E h \in Handlers, ok \in BOOLEAN : SayApology(h, ok)
    \/ \E h \in Handlers : Return(h)

SpecSeq == Init /\ [][NextSeq]_vars

(***************************************************************************)
(* The validator on every short input: one /add-influencer command whose   *)
(* argument is any string of at most MaxUrlLen tokens, with or without a   *)
(* scheme in front, or one mention that holds such a string in angle       *)
(* brackets, delivered once startup is over and run to its reply without   *)
(* a failing call.                                                         *)
(***************************************************************************)
MaxUrlLen == 3
ValidatorTokens == {"TikTok.com", "youtu.be", "example.com", "/", "[", "x", "?"}
ValidatorInputs ==
    {p \o b : p \in {<<>>, <<HTTP>>, <<HTTPS>>},
              b \in UNION {[1..m -> ValidatorTokens] : m \in 0..MaxUrlLen}}

\* every process serves and no event was delivered yet
StartupOver == started = 0 /\ \A p \in Procs : ppc[p] = "serving"

NextValidator ==
    \/ \E p \in Procs : HeaderRead(p, TRUE)
    \/ \E p \in Procs : HeaderWrite(p, TRUE)
    \/ /\ StartupOver
       /\ \E h \in Handlers, txt \in ValidatorInputs : CommandStart(h, txt, TRUE)
    \/ /\ StartupOver
       /\ \E h \in Handlers, txt \in ValidatorInputs :
             MentionStart(h, <<"@bot", " ", "<">> \o txt \o <<">">>)
    \/ \E h \in Handlers : CheckDuplicate(h, TRUE)
    \/ \E h \in Handlers : AddToSheet(h, LookupNamed, TRUE)
    \/ \E h \in Handlers : Reply(h, TRUE)
    \/ \E h \in Handlers : Return(h)

SpecValidator == Init /\ [][NextValidator]_vars

(***************************************************************************)
(* Vocabulary of the properties.                                           *)
(***************************************************************************)
\* the rows of s whose column B is url
RowsWithUrl(s, url) == {i \in 1..Len(s) : Len(s[i]) > 1 /\ s[i][2] = url}
\* the positions in the log of st of the calls of one kind
CallsOf(st, op) == {k \in 1..Len(st.calls) : st.calls[k].op = op}
\* the positions in the log of st of the calls made for the url at position i
CallsFor(st, op, i) == {k \in CallsOf(st, op) : st.calls[k].i = i}
AllCallsOk(st) == \A k \in 1..Len(st.calls) : st.calls[k].ok
\* h has told the user that the url at position 1 of its message was added
ToldAdded(st) ==
    /\ st.pc = "done"
    /\ Len(st.sent) = 1
    /\ st.sent[1].type \in {"added", "results"}
    /\ Len(st.sent[1].ok) >= 1
    /\ st.sent[1].note

(***************************************************************************)
(* C1. Sequential de-duplication: when invocations do not overlap and      *)
(* every queue read and append succeeds, a url submitted twice is appended *)
(* once only, so no two rows of the queue carry the same column B, from    *)
(* every starting queue, the empty sheet without a header included.        *)
(***************************************************************************)
C1_SequentialDedup ==
    \A i, j \in 1..Len(sheet) :
        (i # j /\ Len(sheet[i]) > 1 /\ Len(sheet[j]) > 1)
            => sheet[i][2] # sheet[j][2]

(***************************************************************************)
(* C2. The check-then-act race: nothing kept by the process stops two      *)
(* invocations from both passing the duplicate check for one url and both  *)
(* appending it. Whenever two invocations have each appended a row for     *)
(* the same url below row 1, these are two different rows of the queue,    *)
(* both carrying that url, and the response of each invocation lists the   *)
(* url as added. C2_Witness is the state the race ends in: both reads      *)
(* succeeded, neither found the other's row, two rows, two success         *)
(* replies.                                                                *)
(***************************************************************************)
C2_RaceNotPrevented ==
    \A g, h \in Handlers :
      \A j \in 1..Len(hs[g].rows) : \A k \in 1..Len(hs[h].rows) :
        LET a == hs[g].rows[j]
            b == hs[h].rows[k]
        IN  (g # h /\ a.url = b.url /\ a.pos > 1 /\ b.pos > 1) =>
               /\ a.pos # b.pos
               /\ {a.pos, b.pos} \subseteq RowsWithUrl(sheet, a.url)
               /\ \A x \in {g, h} :
                     hs[x].pc \in {"reply", "apology", "done", "raised"} =>
                        \E l \in 1..Len(hs[x].response.ok) :
                           hs[x].response.ok[l].url = a.url

C2_Witness ==
    \E g, h \in Handlers :
        /\ g # h
        /\ ToldAdded(hs[g]) /\ ToldAdded(hs[h])
        /\ AllCallsOk(hs[g]) /\ AllCallsOk(hs[h])
        /\ Len(hs[g].urls) = 1 /\ Len(hs[h].urls) = 1
        /\ hs[g].validated_url = hs[h].validated_url
        /\ hs[g].rows # <<>> /\ hs[h].rows # <<>>
        /\ hs[g].rows[1].pos > 1 /\ hs[h].rows[1].pos > 1
        /\ sheet[1] = headers
        /\ Cardinality(RowsWithUrl(sheet, hs[g].validated_url)) = 2

(***************************************************************************)
(* C3. The queue is append-only: under every interleaving of the header    *)
(* initializers with the handlers, every row that is in the queue stays    *)
(* at its position with its content.                                       *)
(***************************************************************************)
C3_AppendOnly ==
    [][\A i \in 1..Len(sheet) : i <= Len(sheet') /\ sheet'[i] = sheet[i]]_vars

(***************************************************************************)
(* C4. The header initializer is idempotent: its read writes nothing; it   *)
(* issues a write only after reading an empty row 1; the write on an empty *)
(* sheet leaves exactly the header row (or nothing, when the call raises); *)
(* and however many initializers run, the queue never holds a header row   *)
(* anywhere but in row 1. So a second run after a first one finds row 1    *)
(* non-empty and writes nothing.                                           *)
(***************************************************************************)
HeaderRows(s) == {i \in 1..Len(s) : s[i] = headers}

C4_HeaderIdempotent ==
    [][/\ \A p \in Procs :
            /\ (ppc[p] = "setup" /\ ppc'[p] # "setup") => sheet' = sheet
            /\ (ppc[p] = "setup" /\ ppc'[p] = "write") => sheet = <<>>
            /\ (ppc[p] = "write" /\ ppc'[p] = "serving" /\ sheet = <<>>)
                  => sheet' \in {<<>>, <<headers>>}
       /\ HeaderRows(sheet') \subseteq {1}]_vars

\* two initializers have run to their end without a failure: one header row
C4_Witness ==
    /\ \A p \in Procs : ppc[p] = "serving"
    /\ faults = 0
    /\ started = 0
    /\ sheet = <<headers>>

(***************************************************************************)
(* C5. The duplicate check fails open: a queue read that raised is         *)
(* followed, for the same url, by the identity lookup and the append of    *)
(* add_to_sheet (or the handler is about to issue them); the url gets no   *)
(* "already exists" line.                                                  *)
(***************************************************************************)
\* the lines that turn urls down: errors in a mention, the response in a command
ErrorLines(st) == IF st.kind = "mention" THEN st.errors ELSE st.response.err

C5_FailOpen ==
    \A h \in Handlers :
      LET st == hs[h]
      IN  \A k \in CallsOf(st, "read") :
            ~st.calls[k].ok =>
               /\ IF k = Len(st.calls)
                  THEN st.pc = "append" /\ st.idx = st.calls[k].i
                  ELSE /\ k + 2 <= Len(st.calls)
                       /\ st.calls[k + 1].op = "lookup"
                       /\ st.calls[k + 2].op = "append"
                       /\ st.calls[k + 1].i = st.calls[k].i
                       /\ st.calls[k + 2].i = st.calls[k].i
               /\ \A n \in 1..Len(ErrorLines(st)) :
                     ErrorLines(st)[n].i = st.calls[k].i
                        => ErrorLines(st)[n].reason = FailedToAdd

\* a read raised, the url was appended all the same and the user was told so
C5_Witness ==
    \E h \in Handlers :
        /\ ToldAdded(hs[h])
        /\ \E k \in CallsOf(hs[h], "read") : ~hs[h].calls[k].ok
        /\ Len(hs[h].rows) = 1

(***************************************************************************)
(* C6. A rejected url leaves the queue unchanged: for every url that the   *)
(* validator or the duplicate check turned down, the invocation issued no  *)
(* identity lookup and no append and added no row, and the response it     *)
(* composes carries the line with the reason; the queue changes only in a  *)
(* header write and in an append that an invocation issued for a url.      *)
(***************************************************************************)
Composed(st) == st.pc \in {"reply", "done"} /\ st.response # NoMsg

C6_RejectedLeavesQueue ==
    /\ [](\A h \in Handlers :
            LET st == hs[h]
            IN  \A n \in 1..Len(ErrorLines(st)) :
                  LET line == ErrorLines(st)[n]
                  IN  line.reason # FailedToAdd =>
                        /\ CallsFor(st, "lookup", line.i) = {}
                        /\ CallsFor(st, "append", line.i) = {}
                        /\ \A k \in 1..Len(st.rows) : st.rows[k].i # line.i
                        /\ Composed(st) =>
                              \E m \in 1..Len(st.response.err) :
                                 st.response.err[m] = line)
    /\ [][sheet' # sheet =>
            \/ \E p \in Procs : ppc[p] = "write" /\ ppc'[p] = "serving"
            \/ \E h \in Handlers :
                  /\ hs[h].pc = "append"
                  /\ Len(hs'[h].rows) = Len(hs[h].rows) + 1
                  /\ CallsFor(hs'[h], "append", hs[h].idx) # {}]_vars

\* one mention whose urls the validator turned down, one whose second url
\* was a duplicate; both users were told
C6_Witness ==
    \E g, h \in Handlers :
        /\ hs[g].pc = "done" /\ hs[h].pc = "done"
        /\ Len(hs[g].sent) = 1 /\ Len(hs[h].sent) = 1
        /\ \E m \in 1..Len(hs[g].sent[1].err) :
              hs[g].sent[1].err[m].reason = UnsupportedPlatform
        /\ \E m \in 1..Len(hs[h].sent[1].err) :
              /\ hs[h].sent[1].err[m].reason = AlreadyExists
              /\ CallsFor(hs[h], "read", hs[h].sent[1].err[m].i) # {}
              /\ CallsFor(hs[h], "append", hs[h].sent[1].err[m].i) = {}

(***************************************************************************)
(* C7. Empty input short-circuits: a mention whose text holds no url, and  *)
(* a command (acknowledged) whose argument is empty after trimming, call   *)
(* neither the validator nor the queue nor the identity lookup, add no     *)
(* row, and reply with the usage hint; when that reply goes through it is  *)
(* the only reply of the invocation.                                       *)
(***************************************************************************)
EmptyInput(st) ==
    /\ st.text # None
    /\ \/ st.kind = "mention" /\ FindAll(st.text) = <<>>
       \/ /\ st.kind = "command"
          /\ Strip(st.text, SpaceTokens) = <<>>
          /\ st.calls[1].ok

Min(S) == CHOOSE x \in S : \A y \in S : x <= y

C7_EmptyInputShortCircuits ==
    \A h \in Handlers :
      LET st == hs[h]
          says == CallsOf(st, "say")
      IN  EmptyInput(st) =>
            /\ \A op \in {"validate", "read", "lookup", "append"} :
                  CallsOf(st, op) = {}
            /\ st.rows = <<>>
            /\ st.response = UsageHint
            /\ st.pc = "reply" => says = {} /\ st.sent = <<>>
            /\ (says # {} /\ st.calls[Min(says)].ok) =>
                  /\ st.pc = "done"
                  /\ st.sent = <<UsageHint>>
                  /\ Cardinality(says) = 1

\* a mention without a url and a command with a blank argument, both answered
C7_Witness ==
    \E g, h \in Handlers :
        /\ hs[g].kind = "mention" /\ hs[g].text = <<"@bot", " ", "hello">>
        /\ hs[g].pc = "done" /\ hs[g].sent = <<UsageHint>>
        /\ hs[g].calls = <<Call("say", 0, TRUE)>>
        /\ hs[h].kind = "command" /\ hs[h].text = <<" ">>
        /\ hs[h].pc = "done" /\ hs[h].sent = <<UsageHint>>
        /\ hs[h].calls = <<Call("ack", 0, TRUE), Call("say", 0, TRUE)>>

(***************************************************************************)
(* C8. A mention with a supported-platform url written without a scheme    *)
(* ("@bot tiktok.com/@jane") is submitted: when no call raises and the url *)
(* is no duplicate, one row is appended and the reply holds one success    *)
(* line and the batch-delay note.                                          *)
(***************************************************************************)
SchemelessMention == <<"@bot", " ", "tiktok.com", "/", "@jane">>
BracketedMention == <<"@bot", " ", "<">> \o Jane \o <<">">>
SchemelessCommand == <<" ", "tiktok.com", "/", "@jane", " ">>

\* the reply of a mention whose one url was appended
OneSuccess(st) ==
    /\ st.sent = <<Msg("results", <<SuccessLine(1, Str("TikTok"), Jane)>>, <<>>, TRUE)>>
    /\ Len(st.rows) = 1
    /\ st.rows[1].url = Jane

C8_SchemelessMentionSubmitted ==
    \A h \in Handlers :
        (/\ hs[h].kind = "mention"
         /\ hs[h].text = SchemelessMention
         /\ hs[h].pc = "done"
         /\ AllCallsOk(hs[h]))
        => \/ OneSuccess(hs[h])
           \/ \E n \in 1..Len(hs[h].errors) : hs[h].errors[n].reason = AlreadyExists

(***************************************************************************)
(* C8, amended. The mention handler extracts only urls written with        *)
(* http:// or https://. The mention "@bot tiktok.com/@jane" holds no such  *)
(* url: it gets the usage hint, nothing is validated and nothing is        *)
(* appended. The same url written with its scheme is extracted, classified *)
(* TikTok and accepted: when no call raises and it is no duplicate, one    *)
(* row with status Pending is appended and the reply holds one success     *)
(* line and the batch-delay note. The validator's https:// prefix takes    *)
(* effect for the argument of the command, which is not extracted by the   *)
(* pattern.                                                                *)
(***************************************************************************)
C8_MentionNeedsScheme ==
    \A h \in Handlers :
      LET st == hs[h]
      IN  /\ (st.kind = "mention" /\ st.text = SchemelessMention) =>
                /\ st.urls = <<>>
                /\ st.response = UsageHint
                /\ st.rows = <<>>
                /\ \A k \in 1..Len(st.calls) : st.calls[k].op = "say"
          /\ (/\ st.kind = "mention" /\ st.text = BracketedMention
              /\ st.pc = "done" /\ AllCallsOk(st) /\ st.errors = <<>>) =>
                /\ OneSuccess(st)
                /\ st.rows[1].pos <= Len(sheet)
                /\ st.rows[1].pos > 1 =>
                      LET row == sheet[st.rows[1].pos]
                      IN  /\ Len(row) = 5
                          /\ row[2] = Jane
                          /\ row[3] = Str("TikTok")
                          /\ row[5] = Pending
          /\ (/\ st.kind = "command" /\ st.text = SchemelessCommand
              /\ CallsOf(st, "validate") # {}) =>
                /\ st.validated_url = Jane
                /\ st.platform = Str("TikTok")

\* the mention without a scheme got the usage hint; the mention with the
\* scheme was appended below the header
C8_Witness ==
    \E g, h \in Handlers :
        /\ hs[g].kind = "mention" /\ hs[g].text = SchemelessMention
        /\ hs[g].pc = "done" /\ hs[g].sent = <<UsageHint>>
        /\ hs[h].kind = "mention" /\ hs[h].text = BracketedMention
        /\ hs[h].pc = "done" /\ OneSuccess(hs[h])
        /\ hs[h].rows[1].pos > 1
        /\ sheet[hs[h].rows[1].pos][5] = Pending

(***************************************************************************)
(* C9. Acknowledge first: the first call of every invocation of the        *)
(* command handler is the acknowledgement, and it is the only              *)
(* acknowledgement the invocation issues, whatever the argument.           *)
(***************************************************************************)
C9_AckFirst ==
    \A h \in Handlers :
        hs[h].kind = "command" =>
            /\ hs[h].calls # <<>>
            /\ CallsOf(hs[h], "ack") = {1}

\* a command that went through every call, the acknowledgement first
C9_Witness ==
    \E h \in Handlers :
        /\ hs[h].kind = "command"
        /\ hs[h].pc = "done"
        /\ hs[h].calls = <<Call("ack", 0, TRUE), Call("validate", 1, TRUE),
                           Call("read", 1, TRUE), Call("lookup", 1, TRUE),
                           Call("append", 1, TRUE), Call("say", 1, TRUE)>>

(***************************************************************************)
(* C10. Handler exception boundary: an exception raised at any step of a   *)
(* handler, the sending of the reply included, is caught inside the        *)
(* handler and never propagates out of it.                                 *)
(***************************************************************************)
C10_NeverPropagates == \A h \in Handlers : hs[h].pc # "raised"

(***************************************************************************)
(* C11. A queue read or a queue append that raises during an invocation   *)
(* reaches the except block of the handler, and the reply of the           *)
(* invocation is the generic apology.                                      *)
(***************************************************************************)
\* a queue read or append of the invocation raised
BackendRaised(st) ==
    \E k \in 1..Len(st.calls) : st.calls[k].op \in {"read", "append"} /\ ~st.calls[k].ok
\* an ack, say or respond of the invocation raised
TransportRaised(st) ==
    \E k \in 1..Len(st.calls) : st.calls[k].op \in {"ack", "say"} /\ ~st.calls[k].ok

C11_BackendFailureApologised ==
    \A h \in Handlers :
        (hs[h].pc = "done" /\ BackendRaised(hs[h])) => hs[h].sent = <<Apology>>

(***************************************************************************)
(* C11, amended. A queue read or append that raises is caught inside       *)
(* check_duplicate_url / add_to_sheet and never reaches the except block   *)
(* of the handler: unless a call of the transport (ack, say, respond)      *)
(* raises as well, the invocation is never in its except block, never      *)
(* sends the apology, and ends with the one reply it composed, which is    *)
(* a result or failure message. The apology is sent only after an          *)
(* exception outside these two functions.                                  *)
(***************************************************************************)
C11_BackendFailureNoApology ==
    \A h \in Handlers :
      LET st == hs[h]
      IN  /\ (BackendRaised(st) /\ ~TransportRaised(st)) =>
                /\ st.pc \notin {"apology", "raised"}
                /\ st.pc = "done" =>
                      /\ st.sent = <<st.response>>
                      /\ st.response.type \in {"results", "added", "failed", "duplicate"}
          /\ (st.pc = "apology" \/ Apology \in {st.sent[k] : k \in 1..Len(st.sent)}) =>
                st.text = None \/ TransportRaised(st)

\* a command whose append raised, answered with the failure message
C11_Witness ==
    \E h \in Handlers :
        /\ hs[h].kind = "command"
        /\ hs[h].pc = "done"
        /\ \E k \in CallsOf(hs[h], "append") : ~hs[h].calls[k].ok
        /\ hs[h].sent = <<Msg("failed", <<>>,
                              <<ErrorLine(1, hs[h].urls[1], FailedToAdd)>>, FALSE)>>

(***************************************************************************)
(* C12. Requester fallback chain: whatever the identity lookup answers,    *)
(* the requester of the row is one of the names the lookup offered or the  *)
(* literal "Unknown User", never null and never empty; column D of every   *)
(* row an invocation appended holds it; and a lookup that failed is        *)
(* followed by the append and leaves no trace in the reply.                *)
(***************************************************************************)
Requesters == {Str("Jane Doe"), Str("jd"), Str("jane"), UnknownUser}

C12_RequesterNeverEmpty ==
    \A h \in Handlers :
      LET st == hs[h]
      IN  /\ CallsOf(st, "lookup") # {} => st.user_name \in Requesters
          /\ \A k \in CallsOf(st, "lookup") :
                /\ k < Len(st.calls)
                /\ st.calls[k + 1].op = "append"
                /\ st.calls[k + 1].ok => st.pc \notin {"apology", "raised"}
          /\ \A n \in 1..Len(st.rows) :
                (st.rows[n].pos <= Len(sheet) /\ Len(sheet[st.rows[n].pos]) = 5
                   /\ sheet[st.rows[n].pos] # headers)
                => sheet[st.rows[n].pos][4] \in Requesters

(***************************************************************************)
(* C13. Exactly one reply per event: an invocation of either handler that  *)
(* has returned has sent exactly one reply, whatever its urls and whatever *)
(* failed on the way; no invocation ever sends two, and a reply that went  *)
(* through is the last call of the invocation.                             *)
(***************************************************************************)
C13_ExactlyOneReply ==
    \A h \in Handlers :
      LET st == hs[h]
          delivered == {k \in CallsOf(st, "say") : st.calls[k].ok}
      IN  /\ Len(st.sent) <= 1
          /\ Cardinality(delivered) = Len(st.sent)
          /\ st.pc = "done" => Len(st.sent) = 1
          /\ st.sent # <<>> => st.pc = "done" /\ delivered = {Len(st.calls)}

\* a mention with one url added and one refused, and an invocation whose
\* first reply raised: one reply each
C13_Witness ==
    \E g, h \in Handlers :
        /\ hs[g].kind = "mention" /\ hs[g].pc = "done"
        /\ Len(hs[g].urls) = 2
        /\ Len(hs[g].sent) = 1
        /\ Len(hs[g].sent[1].ok) = 1 /\ Len(hs[g].sent[1].err) = 1
        /\ hs[h].pc = "done"
        /\ Cardinality(CallsOf(hs[h], "say")) = 2
        /\ hs[h].sent = <<Apology>>

(***************************************************************************)
(* C14. Mention reply composition: in the reply of a mention with n >= 1   *)
(* urls every url has exactly one line, in the success list or in the      *)
(* error list, so the two lists hold n lines together; the success lines   *)
(* are as many as the rows the invocation appended; and the batch-delay    *)
(* note is there exactly when at least one url was appended. While the     *)
(* loop runs the two lists hold one line for each url already handled.     *)
(***************************************************************************)
LinesFor(lines, i) == {k \in 1..Len(lines) : lines[k].i = i}

C14_MentionReplyComposition ==
    \A h \in Handlers :
      LET st == hs[h]
          r == st.response
          n == Len(st.urls)
      IN  st.kind = "mention" =>
            /\ st.pc \in {"check", "append"} =>
                  Len(st.processed_urls) + Len(st.errors) = st.idx - 1
            /\ r.type = "results" =>
                  /\ n >= 1
                  /\ r.ok = st.processed_urls /\ r.err = st.errors
                  /\ Len(r.ok) + Len(r.err) = n
                  /\ \A i \in 1..n :
                        Cardinality(LinesFor(r.ok, i)) + Cardinality(LinesFor(r.err, i)) = 1
                  /\ Len(r.ok) = Len(st.rows)
                  /\ \A k \in 1..Len(r.ok) : \E m \in 1..Len(st.rows) : st.rows[m].i = r.ok[k].i
                  /\ r.note <=> Len(st.rows) >= 1

\* one mention answered with a success line, an error line and the note,
\* another with two error lines and no note
C14_Witness ==
    \E g, h \in Handlers :
        /\ hs[g].kind = "mention" /\ hs[g].pc = "done"
        /\ Len(hs[g].sent) = 1 /\ hs[g].sent[1].type = "results"
        /\ Len(hs[g].sent[1].ok) = 1 /\ Len(hs[g].sent[1].err) = 1
        /\ hs[g].sent[1].note /\ Len(hs[g].rows) = 1
        /\ hs[h].kind = "mention" /\ hs[h].pc = "done"
        /\ Len(hs[h].sent) = 1 /\ hs[h].sent[1].type = "results"
        /\ hs[h].sent[1].ok = <<>> /\ Len(hs[h].sent[1].err) = 2
        /\ ~hs[h].sent[1].note /\ hs[h].rows = <<>>

(***************************************************************************)
(* C15. Duplicate checker on a successful read: check_duplicate_url(u)     *)
(* answers true iff some data row of the queue holds exactly u in column   *)
(* B. The first row is left out only as the header: a data row is never    *)
(* left out of the comparison.                                             *)
(***************************************************************************)
\* the step in which h's duplicate check returns from a read that succeeded
ChecksOnGoodRead(h) ==
    /\ hs[h].pc = "check"
    /\ Len(hs'[h].calls) > Len(hs[h].calls)
    /\ hs'[h].calls[Len(hs[h].calls) + 1] = Call("read", hs[h].idx, TRUE)

\* the check of that step answered true: the url got the already-exists line
AnsweredDuplicate(h) ==
    \E n \in 1..Len(ErrorLines(hs'[h])) :
        /\ ErrorLines(hs'[h])[n].i = hs[h].idx
        /\ ErrorLines(hs'[h])[n].reason = AlreadyExists

C15_DuplicateIffDataRow ==
    [][\A h \in Handlers :
          ChecksOnGoodRead(h) =>
             (AnsweredDuplicate(h) <=> RowsWithUrl(sheet, hs[h].validated_url) # {})]_vars

(***************************************************************************)
(* C16. Validator decision function: with u the input, prefixed by         *)
(* https:// unless it starts with http:// or https://, validate_url gives  *)
(* UnsupportedPlatform iff the lower-cased host of u contains none of the  *)
(* supported domains, InvalidPath naming the platform iff the host matches *)
(* and the path is empty or "/", and otherwise (u, platform); one of these *)
(* three for every input.                                                  *)
(***************************************************************************)
WithScheme(input) == IF StartsWithScheme(input) THEN input ELSE <<HTTPS>> \o input
HostOf(u) == Lower(UrlParse(u).netloc)
PathOf(u) == UrlParse(u).path
Matching(u) ==
    {k \in 1..Len(SUPPORTED_PLATFORMS) : Contains(HostOf(u), SUPPORTED_PLATFORMS[k][1])}
LabelOf(u) == Str(SUPPORTED_PLATFORMS[Min(Matching(u))][2])
NoPath(u) == PathOf(u) \in {<<>>, <<"/">>}

\* the command invocation st has its argument validated
Validated(st) == st.kind = "command" /\ CallsOf(st, "validate") # {}
\* the validator turned the argument of st down with this message
TurnedDown(st, msg) ==
    /\ st.response.type = "rejected"
    /\ st.response.err = <<ErrorLine(1, st.urls[1], msg)>>
    /\ st.validated_url = None
\* the validator returned (u, platform) for the argument of st
Passed(st, u, platform) ==
    /\ st.response.type # "rejected"
    /\ st.validated_url = u
    /\ st.platform = platform

C16_ThreeOutcomes ==
    \A h \in Handlers :
      LET st == hs[h]
          u == WithScheme(st.urls[1])
      IN  Validated(st) =>
            /\ TurnedDown(st, UnsupportedPlatform) <=> Matching(u) = {}
            /\ Matching(u) # {} =>
                  /\ TurnedDown(st, InvalidPath(LabelOf(u))) <=> NoPath(u)
                  /\ Passed(st, u, LabelOf(u)) <=> ~NoPath(u)

(***************************************************************************)
(* C16, amended. There is a fourth outcome, checked first: validate_url    *)
(* gives InvalidFormat iff parsing u raises (a host with an unmatched      *)
(* bracket). When parsing does not raise the three outcomes are as stated: *)
(* UnsupportedPlatform iff the lower-cased host contains no supported      *)
(* domain, InvalidPath naming the platform iff the host matches and the    *)
(* path is empty or "/", otherwise (u, platform) with u unchanged and      *)
(* platform the label of the first matching domain. Exactly one of the     *)
(* four holds for every input.                                             *)
(***************************************************************************)
C16_ValidatorDecision ==
    \A h \in Handlers :
      LET st == hs[h]
          u == WithScheme(st.urls[1])
          raises == UrlParse(u).raises
      IN  Validated(st) =>
            /\ TurnedDown(st, InvalidFormat) <=> raises
            /\ TurnedDown(st, UnsupportedPlatform) <=> (~raises /\ Matching(u) = {})
            /\ (~raises /\ Matching(u) # {}) =>
                  /\ TurnedDown(st, InvalidPath(LabelOf(u))) <=> NoPath(u)
                  /\ Passed(st, u, LabelOf(u)) <=> ~NoPath(u)
            /\ (raises \/ Matching(u) = {}) => st.validated_url = None

\* a mixed-case host without scheme was accepted, prefixed and unchanged
\* otherwise, and the command was answered
C16_Witness ==
    \E h \in Handlers :
        /\ hs[h].kind = "command"
        /\ hs[h].text = <<"TikTok.com", "/", "x">>
        /\ hs[h].validated_url = <<HTTPS, "TikTok.com", "/", "x">>
        /\ hs[h].platform = Str("TikTok")
        /\ hs[h].pc = "done"
        /\ Len(hs[h].sent) = 1 /\ hs[h].sent[1].type = "added"

(***************************************************************************)
(* C17. No retry on append failure: an invocation issues at most one       *)
(* append call for each of its urls; when that call raises, the invocation *)
(* adds no row for the url, records the "failed to add" error for it and   *)
(* no success line, and the reply it composes carries that error: it is    *)
(* not a success message for the url and, unless a transport call raises,  *)
(* not the apology.                                                        *)
(***************************************************************************)
C17_NoRetryOnAppendFailure ==
    \A h \in Handlers :
      LET st == hs[h]
      IN  /\ \A i \in 1..Len(st.urls) : Cardinality(CallsFor(st, "append", i)) <= 1
          /\ \A k \in CallsOf(st, "append") :
                ~st.calls[k].ok =>
                  LET i == st.calls[k].i
                      line == ErrorLine(i, CurrentUrl([st EXCEPT !.idx = i]), FailedToAdd)
                  IN  /\ \A n \in 1..Len(st.rows) : st.rows[n].i # i
                      /\ LinesFor(ErrorLines(st), i) # {}
                      /\ \A n \in LinesFor(ErrorLines(st), i) : ErrorLines(st)[n] = line
                      /\ LinesFor(st.processed_urls, i) = {}
                      /\ Composed(st) =>
                            /\ st.response.type \in {"failed", "results"}
                            /\ LinesFor(st.response.err, i) # {}
                            /\ LinesFor(st.response.ok, i) = {}
                      /\ ~TransportRaised(st) => st.pc \notin {"apology", "raised"}

\* a mention of two urls: the append of the first raised, the second was
\* added, and the reply says both
C17_Witness ==
    \E h \in Handlers :
        /\ hs[h].kind = "mention" /\ hs[h].pc = "done"
        /\ Len(hs[h].urls) = 2
        /\ \E k \in CallsFor(hs[h], "append", 1) : ~hs[h].calls[k].ok
        /\ Len(hs[h].sent) = 1
        /\ Len(hs[h].sent[1].err) = 1
        /\ hs[h].sent[1].err[1].i = 1
        /\ hs[h].sent[1].err[1].reason = FailedToAdd
        /\ Len(hs[h].sent[1].ok) = 1
        /\ hs[h].sent[1].ok[1].i = 2

(***************************************************************************)
(* C18. Per-url independence and order in a mention: the urls are handled  *)
(* one after another in their order of appearance (validate, duplicate     *)
(* check, lookup and append of a url all come before any call for a later  *)
(* url), whatever happens to a url every later url is handled too, the     *)
(* duplicate check of a url comes after the append of every earlier url,   *)
(* and the rows the mention appended are in the queue in the order of the  *)
(* urls.                                                                   *)
(***************************************************************************)
StepOrder(op) ==
    CASE op = "validate" -> 1 [] op = "read" -> 2 [] op = "lookup" -> 3
      [] op = "append" -> 4 [] OTHER -> 5

C18_PerUrlOrder ==
    \A h \in Handlers :
      LET st == hs[h]
          n == Len(st.urls)
      IN  (st.kind = "mention" /\ n >= 1) =>
            /\ \A k, l \in 1..Len(st.calls) :
                  k < l =>
                    \/ st.calls[k].i < st.calls[l].i
                    \/ /\ st.calls[k].i = st.calls[l].i
                       /\ StepOrder(st.calls[k].op) < StepOrder(st.calls[l].op)
                    \/ st.calls[k].op = "say" /\ st.calls[l].op = "say"
            /\ \A i \in 1..st.idx : Cardinality(CallsFor(st, "validate", i)) = 1
            /\ st.pc \in {"reply", "done"} => st.idx = n
            /\ \A k \in CallsOf(st, "read") : \A l \in CallsOf(st, "append") :
                  st.calls[l].i < st.calls[k].i => l < k
            /\ \A a, b \in 1..Len(st.rows) :
                  a < b => /\ st.rows[a].i < st.rows[b].i
                           /\ st.rows[a].pos < st.rows[b].pos

\* a mention of two urls that were both appended, in order, below the
\* header; and a mention whose first url was turned down and whose second
\* was validated all the same
C18_Witness ==
    \E g, h \in Handlers :
        /\ hs[g].kind = "mention" /\ hs[g].pc = "done"
        /\ Len(hs[g].rows) = 2
        /\ hs[g].rows[1].i = 1 /\ hs[g].rows[2].i = 2
        /\ 1 < hs[g].rows[1].pos /\ hs[g].rows[1].pos < hs[g].rows[2].pos
        /\ sheet[1] = headers
        /\ hs[h].kind = "mention" /\ hs[h].pc = "done"
        /\ Len(hs[h].urls) = 2
        /\ LinesFor(hs[h].errors, 1) # {}
        /\ CallsFor(hs[h], "validate", 2) # {}

(***************************************************************************)
(* C19. Well-formed rows: every row the handlers appended has exactly five *)
(* columns in the order timestamp, url, platform, requester, status; its   *)
(* status is "Pending", its url is a string the validator accepts and its  *)
(* platform is the label the validator gives for that url. No row is       *)
(* appended for a url that did not pass the validator.                     *)
(***************************************************************************)
PlatformLabels == {Str(SUPPORTED_PLATFORMS[k][2]) : k \in 1..Len(SUPPORTED_PLATFORMS)}

WellFormed(row) ==
    /\ Len(row) = 5
    /\ row[1] = Now
    /\ row[5] = Pending
    /\ row[3] \in PlatformLabels
    /\ validate_url(row[2]) = Accepted(row[2], row[3])

C19_WellFormedRows ==
    /\ \A i \in 1..Len(sheet) :
          \/ i = 1 /\ sheet[i] \in {headers, ForeignHeader}
          \/ WellFormed(sheet[i])
    /\ \A h \in Handlers : \A n \in 1..Len(hs[h].rows) :
          LET e == hs[h].rows[n]
              r == validate_url(CurrentUrl([hs[h] EXCEPT !.idx = e.i]))
          IN  /\ r.url = e.url
              /\ e.url # None
              /\ e.pos <= Len(sheet)
              /\ e.pos > 1 =>
                    /\ sheet[e.pos][2] = e.url
                    /\ sheet[e.pos][3] = r.result

\* the url of a mention is in the queue below the header as a YouTube row
C19_Witness ==
    \E h \in Handlers :
        /\ hs[h].kind = "mention" /\ hs[h].pc = "done"
        /\ Len(sheet) = 2
        /\ sheet[1] = headers
        /\ sheet[2] = <<Now, <<HTTP, "youtu.be", "/", "x">>,
                        Str("YouTube"), Str("Jane Doe"), Pending>>
        /\ hs[h].rows = <<[i |-> 1, pos |-> 2, url |-> sheet[2][2]]>>

====
